---- MODULE Spec2Model ----
(***************************************************************************)
(* HDB Assist AI (src/ui.py): the Flowise response extractor, the decision *)
(* renderer and the three interaction handlers of one Streamlit session.   *)
(*                                                                         *)
(* A text is a sequence of one-character strings.  The JSON fragment the   *)
(* texts can spell:                                                        *)
(*    "T"            the literal true                                      *)
(*    "E" "H" "e"    one object member "urgency_level": "Emergency",       *)
(*                   "urgency_level": "High", "urgency_level": "emergency" *)
(*    "{" "}" "[" "]" ","   as in JSON;  " " is whitespace                 *)
(*    "x"            a character of prose (never part of JSON)             *)
(* Every Python value the helpers hand around is a record [kind, toks].    *)
(***************************************************************************)
EXTENDS Integers, Sequences, FiniteSets, TLC

VARIABLES
    FLOWISE_CHATFLOW_ID,  \* the configured flow identifier ("" when missing)
    sid,                  \* st.session_state.sid
    chat_messages,        \* st.session_state.chat_messages
    posts,                \* every requests.post made so far, in order
    last,                 \* what the last interaction did and displayed
    resp,                 \* a raw response handed to the extractor
    salvaged,             \* _extract_json_anywhere(resp.text)
    parsed                \* extract_json_from_flowise_response(resp)

vars == <<FLOWISE_CHATFLOW_ID, sid, chat_messages, posts, last, resp, salvaged,
          parsed>>

\* ---------------------------------------------------------------- bounds
MaxLen == 4
MaxTrace == 2
MaxChat == 4
MaxPosts == 3

\* ----------------------------------------------------------------- texts
Chars == {"{", "}", "[", "]", ",", " ", "x", "T", "E"}
MemberToks == {"E", "H", "e"}

Texts(n) == UNION {[1..k -> Chars] : k \in 0..n}

\* Python values
None == [kind |-> "None", toks |-> <<>>]
JSONDecodeError == [kind |-> "JSONDecodeError", toks |-> <<>>]
RuntimeErrorNoJson == [kind |-> "RuntimeError", toks |-> <<>>]

\* str.strip(): leading and trailing whitespace removed
RECURSIVE LStrip(_)
LStrip(t) == IF t # <<>> /\ Head(t) = " " THEN LStrip(Tail(t)) ELSE t

RECURSIVE RStrip(_)
RStrip(t) ==
    IF t # <<>> /\ t[Len(t)] = " " THEN RStrip(SubSeq(t, 1, Len(t) - 1)) ELSE t

Strip(t) == RStrip(LStrip(t))

\* the tokens of a text: JSON ignores whitespace between tokens
NoWs(t) == SelectSeq(t, LAMBDA c : c # " ")

\* members of an object: member ("," member)*
IsMembers(m) ==
    /\ Len(m) % 2 = 1
    /\ \A i \in 1..Len(m) :
          IF i % 2 = 1 THEN m[i] \in MemberToks ELSE m[i] = ","

IsObject(s) ==
    /\ Len(s) >= 2
    /\ s[1] = "{"
    /\ s[Len(s)] = "}"
    /\ \/ Len(s) = 2
       \/ IsMembers(SubSeq(s, 2, Len(s) - 1))

RECURSIVE IsValue(_), IsElements(_)
IsValue(s) ==
    \/ s = <<"T">>
    \/ IsObject(s)
    \/ /\ Len(s) >= 2
       /\ s[1] = "["
       /\ s[Len(s)] = "]"
       /\ \/ Len(s) = 2
          \/ IsElements(SubSeq(s, 2, Len(s) - 1))

\* elements of an array: value ("," value)*
IsElements(e) ==
    \/ IsValue(e)
    \/ \E k \in 2..(Len(e) - 1) :
          /\ e[k] = ","
          /\ IsValue(SubSeq(e, 1, k - 1))
          /\ IsElements(SubSeq(e, k + 1, Len(e)))

KindOf(s) == IF s[1] = "{" THEN "dict" ELSE IF s[1] = "[" THEN "list" ELSE "bool"

\* json.loads: the decoded value, or JSONDecodeError
json_loads(t) ==
    IF IsValue(NoWs(t)) THEN [kind |-> KindOf(NoWs(t)), toks |-> NoWs(t)]
    ELSE JSONDecodeError

Decoded(v) == v.kind \in {"dict", "list", "bool"}

\* Python truthiness of a value: None, {} and [] are falsy
Truthy(v) ==
    /\ Decoded(v)
    /\ v.toks # <<"{", "}">>
    /\ v.toks # <<"[", "]">>

\* ------------------------------------------------------------- extractor
\* re.search(r"\{.*\}", t, flags=re.S): the leftmost match, and of the
\* matches that start there the longest ("." matches newlines too)
MatchStarts(t) ==
    {i \in 1..Len(t) : t[i] = "{" /\ \E j \in (i + 1)..Len(t) : t[j] = "}"}

Min(S) == CHOOSE m \in S : \A n \in S : m <= n
Max(S) == CHOOSE m \in S : \A n \in S : m >= n

MatchEnds(t, i) == {j \in (i + 1)..Len(t) : t[j] = "}"}

re_search_lazy(t) ==
    IF MatchStarts(t) = {} THEN [found |-> FALSE, group |-> <<>>]
    ELSE [found |-> TRUE,
          group |-> SubSeq(t, Min(MatchStarts(t)),
                           Min(MatchEnds(t, Min(MatchStarts(t)))))]

re_search(t) ==
    IF MatchStarts(t) = {} THEN [found |-> FALSE, group |-> <<>>]
    ELSE [found |-> TRUE,
          group |-> SubSeq(t, Min(MatchStarts(t)),
                           Max(MatchEnds(t, Min(MatchStarts(t)))))]

\* _extract_json_anywhere, on the stripped text
ExtractStripped(t) ==
    IF t = <<>> THEN None
    ELSE IF Decoded(json_loads(t)) THEN json_loads(t)
    ELSE IF re_search(t).found /\ Decoded(json_loads(re_search(t).group))
         THEN json_loads(re_search(t).group)
    ELSE None

_extract_json_anywhere(text) == ExtractStripped(Strip(text))

\* A response: [text, trace]; a trace node is its data.output:
\* [isDict, entries], entries the mapping's items in its native order,
\* each [key, isStr, text].
HasContent(out) == \E i \in 1..Len(out.entries) : out.entries[i].key = "content"

\* out.get("content", "")
ContentOf(out) ==
    IF HasContent(out)
    THEN out.entries[CHOOSE i \in 1..Len(out.entries) :
                         out.entries[i].key = "content"].text
    ELSE <<>>

\* for v in out.values(): the first string value with a truthy parse
RECURSIVE ScanValues(_, _)
ScanValues(entries, i) ==
    IF i > Len(entries) THEN None
    ELSE IF entries[i].isStr /\ Truthy(_extract_json_anywhere(entries[i].text))
         THEN _extract_json_anywhere(entries[i].text)
    ELSE ScanValues(entries, i + 1)

\* the body of the loop over the nodes, for one node
ScanNode(out) ==
    IF ~out.isDict THEN None
    ELSE IF Truthy(_extract_json_anywhere(ContentOf(out)))
         THEN _extract_json_anywhere(ContentOf(out))
    ELSE ScanValues(out.entries, 1)

\* for node in reversed(executed), then the raise
RECURSIVE ScanTrace(_, _)
ScanTrace(trace, k) ==
    IF k = 0 THEN RuntimeErrorNoJson
    ELSE IF Truthy(ScanNode(trace[k])) THEN ScanNode(trace[k])
    ELSE ScanTrace(trace, k - 1)

extract_defaulting(r) ==
    IF Truthy(_extract_json_anywhere(r.text)) THEN _extract_json_anywhere(r.text)
    ELSE IF ScanTrace(r.trace, Len(r.trace)) = RuntimeErrorNoJson
         THEN [kind |-> "dict", toks |-> <<"{", "}">>]
    ELSE ScanTrace(r.trace, Len(r.trace))

extract_json_from_flowise_response(r) ==
    IF Truthy(_extract_json_anywhere(r.text)) THEN _extract_json_anywhere(r.text)
    ELSE ScanTrace(r.trace, Len(r.trace))

\* -------------------------------------------------------------- renderer
\* data.get("urgency_level", "Normal") of a dict: a repeated key keeps the
\* value of its last occurrence
UrgencyOfTok(c) ==
    IF c = "E" THEN "Emergency" ELSE IF c = "H" THEN "High" ELSE "emergency"

Members(data) == SelectSeq(data.toks, LAMBDA c : c \in MemberToks)

GetUrgency(data) ==
    IF Members(data) = <<>> THEN "Normal"
    ELSE UrgencyOfTok(Members(data)[Len(Members(data))])

Lower(u) ==
    IF u = "Emergency" THEN "emergency" ELSE IF u = "High" THEN "high"
    ELSE IF u = "Normal" THEN "normal" ELSE u

PillClassAnyCase(urgency) ==
    IF Lower(urgency) = "emergency" THEN "danger"
    ELSE IF Lower(urgency) = "high" THEN "warn"
    ELSE "ok"

\* render_decision: the class of the urgency pill
PillClass(urgency) ==
    IF urgency = "Emergency" THEN "danger"
    ELSE IF urgency = "High" THEN "warn"
    ELSE "ok"

\* ------------------------------------------------------------- transport
NoSid == "unset"
SIDs == {"uuid-a", "uuid-b"}
ChatflowIds == {"", "28bddf08"}
HttpOutcomes == {"ok", "ConnectionError", "HTTPError"}
ErrorKinds == {"RuntimeError", "ConfigError", "ConnectionError", "HTTPError"}

Raised(v) == v.kind \in ErrorKinds

\* the session-state block at the top of the script, run on every rerun
SessionSidRegenerated(s, fresh) == fresh

SessionSid(s, fresh) == IF s = NoSid THEN fresh ELSE s

Payload(tab, s) == [question |-> tab, sessionId |-> s]

call_flowise_retrying(tab, s, chatflow, http, raw) ==
    IF chatflow = ""
    THEN [posts |-> <<>>, result |-> [kind |-> "ConfigError", toks |-> <<>>]]
    ELSE IF http # "ok"
    THEN [posts |-> <<Payload(tab, s), Payload(tab, s)>>,
          result |-> [kind |-> http, toks |-> <<>>]]
    ELSE [posts |-> <<Payload(tab, s)>>,
          result |-> extract_json_from_flowise_response(raw)]

\* call_flowise: the POSTs it makes, and what it returns or raises
call_flowise(tab, s, chatflow, http, raw) ==
    IF chatflow = ""
    THEN [posts |-> <<>>, result |-> [kind |-> "ConfigError", toks |-> <<>>]]
    ELSE IF http # "ok"
    THEN [posts |-> <<Payload(tab, s)>>, result |-> [kind |-> http, toks |-> <<>>]]
    ELSE [posts |-> <<Payload(tab, s)>>,
          result |-> extract_json_from_flowise_response(raw)]

\* -------------------------------------------------------------- handlers
Pending == [kind |-> "pending", toks |-> <<>>]
NoResp == [text |-> <<>>, trace |-> <<>>]

Idle ==
    [tab |-> "none", blank |-> FALSE, gotRaw |-> FALSE, raw |-> NoResp,
     result |-> Pending, nposts |-> 0, shown |-> "nothing", pill |-> "none"]

\* render_decision(data), after a call that returned: data.get raises
\* AttributeError when data is not a dict
render_decision(data) ==
    IF data.kind # "dict" THEN [shown |-> "exception", pill |-> "none"]
    ELSE [shown |-> "recommendation", pill |-> PillClass(GetUrgency(data))]

\* try: call_flowise(...) except Exception: st.error(...); st.stop()
\* and then render_decision(data)
Display(result) ==
    IF Raised(result) THEN [shown |-> "error", pill |-> "none"]
    ELSE render_decision(result)

Interaction(tab, chatflow, http, raw, c) ==
    [tab |-> tab, blank |-> FALSE,
     gotRaw |-> (chatflow # "" /\ http = "ok"),
     raw |-> IF chatflow # "" /\ http = "ok" THEN raw ELSE NoResp,
     result |-> c.result, nposts |-> Len(c.posts),
     shown |-> Display(c.result).shown, pill |-> Display(c.result).pill]

UserTurn(msg) == [role |-> "user", content |-> <<msg>>]
ErrorTurn(err) ==
    [role |-> "assistant", content |-> <<"Flowise call failed", err.kind>>]
PrettyTurn(data) ==
    [role |-> "assistant", content |-> <<"**Urgency:**", GetUrgency(data)>>]

ChatFailedReset(msgs, err) == <<ErrorTurn(err)>>

\* the except branch of the chat handler
ChatFailed(msgs, err) == Append(msgs, ErrorTurn(err))

\* the chat handler after the user turn was appended
ChatReply(msgs, result) ==
    IF Raised(result) THEN ChatFailed(msgs, result)
    ELSE IF result.kind # "dict" THEN msgs
    ELSE Append(msgs, PrettyTurn(result))

\* raw responses the external service answers with in a session
SessionResponses ==
    { [text |-> <<"{", "H", "}">>, trace |-> <<>>],
      [text |-> <<"x", "{", "E", "}">>, trace |-> <<>>],
      [text |-> <<"{", "e", "}">>, trace |-> <<>>],
      [text |-> <<"{", "}">>, trace |-> <<>>],
      [text |-> <<"[", "T", "]">>, trace |-> <<>>],
      [text |-> <<>>, trace |-> <<>>],
      [text |-> <<"x">>,
       trace |-> << [isDict |-> TRUE,
                     entries |-> << [key |-> "content", isStr |-> TRUE,
                                     text |-> <<"x", "}">>] >>] >>],
      [text |-> <<>>,
       trace |-> << [isDict |-> TRUE,
                     entries |-> << [key |-> "content", isStr |-> TRUE,
                                     text |-> <<"{", "H", "}">>] >>],
                    [isDict |-> TRUE,
                     entries |-> << [key |-> "result", isStr |-> TRUE,
                                     text |-> <<"{", "E", "}">>] >>] >>] }

UserMsgs == {"How do I report a scam?"}

Init ==
    /\ FLOWISE_CHATFLOW_ID \in ChatflowIds
    /\ sid = NoSid
    /\ chat_messages = <<>>
    /\ posts = <<>>
    /\ last = Idle
    /\ resp = NoResp
    /\ salvaged = Pending
    /\ parsed = Pending

\* a run of the script with no widget event (the first one creates the sid)
PageLoad ==
    /\ \E fresh \in SIDs : sid' = SessionSid(sid, fresh)
    /\ UNCHANGED <<FLOWISE_CHATFLOW_ID, chat_messages, posts, last, resp,
                   salvaged, parsed>>

\* tab_report: the form is submitted
ReportSubmit ==
    /\ sid # NoSid
    /\ Len(posts) < MaxPosts
    /\ \E blank \in BOOLEAN, http \in HttpOutcomes, raw \in SessionResponses,
          fresh \in SIDs :
          LET s == SessionSid(sid, fresh)
              c == call_flowise("report", s, FLOWISE_CHATFLOW_ID, http, raw)
          IN  /\ sid' = s
              /\ IF blank
                 THEN /\ posts' = posts
                      /\ last' = [Idle EXCEPT !.tab = "report", !.blank = TRUE,
                                              !.shown = "warning"]
                 ELSE /\ posts' = posts \o c.posts
                      /\ last' = Interaction("report", FLOWISE_CHATFLOW_ID,
                                             http, raw, c)
    /\ UNCHANGED <<FLOWISE_CHATFLOW_ID, chat_messages, resp, salvaged, parsed>>

\* tab_chat: a message is sent
ChatSend ==
    /\ sid # NoSid
    /\ Len(posts) < MaxPosts
    /\ Len(chat_messages) + 2 <= MaxChat
    /\ \E msg \in UserMsgs, http \in HttpOutcomes, raw \in SessionResponses,
          fresh \in SIDs :
          LET s == SessionSid(sid, fresh)
              c == call_flowise("chat", s, FLOWISE_CHATFLOW_ID, http, raw)
          IN  /\ sid' = s
              /\ posts' = posts \o c.posts
              /\ chat_messages' =
                    ChatReply(Append(chat_messages, UserTurn(msg)), c.result)
              /\ last' = [Interaction("chat", FLOWISE_CHATFLOW_ID, http, raw, c)
                             EXCEPT !.shown =
                                 IF Raised(c.result) THEN "error"
                                 ELSE IF c.result.kind # "dict" THEN "exception"
                                 ELSE "chat",
                                    !.pill = "none"]
    /\ UNCHANGED <<FLOWISE_CHATFLOW_ID, resp, salvaged, parsed>>

\* tab_eval: a scenario is run
EvalRun ==
    /\ sid # NoSid
    /\ Len(posts) < MaxPosts
    /\ \E http \in HttpOutcomes, raw \in SessionResponses, fresh \in SIDs :
          LET s == SessionSid(sid, fresh)
              c == call_flowise("eval", s, FLOWISE_CHATFLOW_ID, http, raw)
          IN  /\ sid' = s
              /\ posts' = posts \o c.posts
              /\ last' = Interaction("eval", FLOWISE_CHATFLOW_ID, http, raw, c)
    /\ UNCHANGED <<FLOWISE_CHATFLOW_ID, chat_messages, resp, salvaged, parsed>>

Next == PageLoad \/ ReportSubmit \/ ChatSend \/ EvalRun

Spec == Init /\ [][Next]_vars

\* ------------------------------------------- the extractor on its inputs
TraceTexts == { <<"{", "}">>, <<"{", "E", "}">>, <<"{", "H", "}">> }

ContentEntries == {[key |-> "content", isStr |-> TRUE, text |-> t] : t \in TraceTexts}

OtherEntries ==
    {[key |-> "result", isStr |-> TRUE, text |-> t] : t \in TraceTexts}
        \cup {[key |-> "result", isStr |-> FALSE, text |-> <<>>]}

Outputs ==
    {<<>>} \cup {<<c>> : c \in ContentEntries} \cup {<<o>> : o \in OtherEntries}
        \cup {<<c, o>> : c \in ContentEntries, o \in OtherEntries}
        \cup {<<o, c>> : c \in ContentEntries, o \in OtherEntries}

Nodes ==
    {[isDict |-> TRUE, entries |-> e] : e \in Outputs}
        \cup {[isDict |-> FALSE, entries |-> <<>>]}

Traces(n) == UNION {[1..k -> Nodes] : k \in 0..n}

FewTraces ==
    { <<>>,
      << [isDict |-> TRUE,
          entries |-> << [key |-> "content", isStr |-> TRUE,
                          text |-> <<"{", "H", "}">>] >>] >> }

FewTexts == { <<>>, <<"x">>, <<"{", "}">> }

\* texts longer than MaxLen
LongTexts ==
    { <<"{", "E", "}", "x", "{", "H", "}">>,
      <<"x", " ", "{", "E", ",", "H", "}", " ", "x">>,
      <<"{", "E", ",", "e", "}">>,
      <<"[", "T", ",", "{", "E", "}", "]">>,
      <<"x", "[", "{", "E", "}", ",", "{", "H", "}", "]">>,
      <<" ", "{", " ", "H", " ", "}", " ">> }

InitExtract ==
    /\ FLOWISE_CHATFLOW_ID \in ChatflowIds \ {""}
    /\ sid = NoSid
    /\ chat_messages = <<>>
    /\ posts = <<>>
    /\ last = Idle
    /\ \/ \E t \in Texts(MaxLen) \cup LongTexts, tr \in FewTraces :
             resp = [text |-> t, trace |-> tr]
       \/ \E t \in FewTexts, tr \in Traces(MaxTrace) :
             resp = [text |-> t, trace |-> tr]
    /\ salvaged = Pending
    /\ parsed = Pending

\* the extractor and its helper applied to the response
Extract ==
    /\ parsed = Pending
    /\ salvaged' = _extract_json_anywhere(resp.text)
    /\ parsed' = extract_json_from_flowise_response(resp)
    /\ UNCHANGED <<FLOWISE_CHATFLOW_ID, sid, chat_messages, posts, last, resp>>

NextExtract == Extract

SpecExtract == InitExtract /\ [][NextExtract]_vars

\* ================================================================ claims
DirectText == Strip(resp.text)
Direct == DirectText # <<>> /\ Decoded(json_loads(DirectText))

\* C1: whenever the trimmed top-level text parses directly as JSON, the
\* extractor returns exactly that parsed value, whatever the trace holds.
C1_DirectParseWins ==
    (parsed # Pending /\ Direct) => parsed = json_loads(DirectText)

\* C2: the extractor returns a mapping or fails; it never returns a list,
\* a string, a number or a boolean.
C2_MappingOrFail ==
    parsed # Pending => parsed.kind \in {"dict", "RuntimeError"}

\* the brace-delimited spans of t that parse, as <<first, last>> positions
ParsingSpans(t) ==
    {p \in (1..Len(t)) \X (1..Len(t)) :
        /\ p[1] < p[2]
        /\ t[p[1]] = "{"
        /\ t[p[2]] = "}"
        /\ Decoded(json_loads(SubSeq(t, p[1], p[2])))}

FirstParsingSpan(t) ==
    CHOOSE p \in ParsingSpans(t) :
        \A q \in ParsingSpans(t) :
            p[1] < q[1] \/ (p[1] = q[1] /\ p[2] <= q[2])

\* C3 as claimed: for a text that does not parse directly, the helper
\* returns the first brace-delimited span that parses, also when the text
\* holds more than one brace-delimited span.
C3_FirstParsingSpanReturned ==
    (salvaged # Pending /\ ~Direct /\ ParsingSpans(DirectText) # {}) =>
        salvaged = json_loads(SubSeq(DirectText,
                                     FirstParsingSpan(DirectText)[1],
                                     FirstParsingSpan(DirectText)[2]))

Opens(t) == {i \in 1..Len(t) : t[i] = "{"}
Closes(t) == {i \in 1..Len(t) : t[i] = "}"}
GreedySpan(t) == SubSeq(t, Min(Opens(t)), Max(Closes(t)))
HasGreedySpan(t) ==
    Opens(t) # {} /\ Closes(t) # {} /\ Min(Opens(t)) < Max(Closes(t))

\* C3 as amended: for a text that does not parse directly, the helper tries
\* one candidate only, the span from the first "{" to the last "}": it
\* returns that span's value when the span parses and None otherwise.
C3_GreedySpanOnly ==
    (salvaged # Pending /\ ~Direct) =>
        salvaged =
            IF HasGreedySpan(DirectText)
               /\ Decoded(json_loads(GreedySpan(DirectText)))
            THEN json_loads(GreedySpan(DirectText))
            ELSE None

C3_Witness ==
    /\ salvaged # Pending
    /\ ~Direct
    /\ salvaged.kind = "dict"
    /\ \E i \in 1..Len(resp.text) : resp.text[i] = "x"

\* what one trace node parses to, by any successful parse: its content
\* first, then its string values in the mapping's order
RECURSIVE FirstDecodedValue(_, _)
FirstDecodedValue(entries, i) ==
    IF i > Len(entries) THEN None
    ELSE IF entries[i].isStr /\ Decoded(_extract_json_anywhere(entries[i].text))
         THEN _extract_json_anywhere(entries[i].text)
    ELSE FirstDecodedValue(entries, i + 1)

NodeParse(out) ==
    IF ~out.isDict THEN None
    ELSE IF Decoded(_extract_json_anywhere(ContentOf(out)))
         THEN _extract_json_anywhere(ContentOf(out))
    ELSE FirstDecodedValue(out.entries, 1)

ParsingNodes(trace) == {k \in 1..Len(trace) : Decoded(NodeParse(trace[k]))}

\* C4: with a top-level text that yields nothing, the extractor returns the
\* parse of the last trace entry that parses, whether or not an earlier
\* entry parses too.
C4_LastParsingEntryReturned ==
    (/\ parsed # Pending
     /\ ~Decoded(_extract_json_anywhere(resp.text))
     /\ ParsingNodes(resp.trace) # {}) =>
        parsed = NodeParse(resp.trace[Max(ParsingNodes(resp.trace))])

\* no JSON can be parsed from the top-level text nor from any trace entry
NothingParses(r) ==
    /\ ~Decoded(_extract_json_anywhere(r.text))
    /\ \A k \in 1..Len(r.trace) :
          \A i \in 1..Len(r.trace[k].entries) :
              r.trace[k].entries[i].isStr =>
                  ~Decoded(_extract_json_anywhere(r.trace[k].entries[i].text))

IsErrorTurn(m) == m.role = "assistant" /\ m.content[1] = "Flowise call failed"

IsPrefix(a, b) == Len(a) <= Len(b) /\ SubSeq(b, 1, Len(a)) = a

\* C7: no interaction, failed ones included, removes, reorders or alters
\* the chat turns that were there before it: the history only grows at its
\* end.
C7_HistoryOnlyGrows == [][IsPrefix(chat_messages, chat_messages')]_vars

C7_Witness ==
    /\ last.tab = "chat"
    /\ last.shown = "error"
    /\ Len(chat_messages) = 4
    /\ ~IsErrorTurn(chat_messages[2])

\* C8 as claimed: every user action makes exactly one outbound call.
C8_ExactlyOneCall == last.tab # "none" => last.nposts = 1

\* C8 as amended: every user action makes at most one outbound call and
\* never retries: exactly one when the flow identifier is configured and
\* the report form's description is not blank, none otherwise.
C8_OneCallUnlessRejected ==
    last.tab # "none" =>
        last.nposts = IF FLOWISE_CHATFLOW_ID # "" /\ ~last.blank THEN 1 ELSE 0

C8_Witness ==
    /\ last.tab = "report"
    /\ last.shown = "error"
    /\ last.result.kind = "HTTPError"
    /\ last.nposts = 1

\* C9: every outbound call of the session carries the one session
\* identifier the session was given when it started.
C9_OneSessionId ==
    \A i \in 1..Len(posts) :
        /\ posts[i].sessionId = sid
        /\ posts[i].sessionId \in SIDs

C9_Witness ==
    /\ Len(posts) >= 3
    /\ \E i, j \in 1..Len(posts) : posts[i].question # posts[j].question
    /\ last.shown = "error"

\* C10: between interactions the chat history has even length and its
\* roles alternate user, assistant.
C10_TurnsPaired ==
    /\ Len(chat_messages) % 2 = 0
    /\ \A i \in 1..Len(chat_messages) :
          chat_messages[i].role = IF i % 2 = 1 THEN "user" ELSE "assistant"

====
